---- MODULE Spec2Model ----
(***************************************************************************)
(* Model of src/api/convert.py: the Flask handler convert_pdf, which      *)
(* validates an uploaded PDF, stages it in a temporary file, runs the      *)
(* pdf2docx Converter on it and returns the result as a download.          *)
(*                                                                         *)
(* A filename is a sequence of one-character strings.  "NA" stands for one *)
(* non-ASCII character without an ASCII decomposition.  A request is       *)
(* handled by one worker; two workers run interleaved over one temporary   *)
(* directory.                                                              *)
(***************************************************************************)
EXTENDS Integers, Sequences, FiniteSets, TLC

\* ------------------------------------------------------------------ bounds
MaxNameLen == 5
NameCount == 2

\* --------------------------------------------------------------- constants
MAX_FILE_SIZE == 10 * 1024 * 1024
ALLOWED_EXTENSIONS == { <<"p", "d", "f">> }
DOCX_MIMETYPE == "application/vnd.openxmlformats-officedocument.wordprocessingml.document"

Reqs == {1, 2}
Alphabet == {".", "/", " ", "_", "NA", "p", "P", "d", "f"}
SafeChars == {"p", "P", "d", "f", "_", ".", "-"}

\* --------------------------------------------------------- string helpers
\* str.lower() on one character of the alphabet
LowerChar(c) == IF c = "P" THEN "p" ELSE c

Lower(s) == [i \in 1..Len(s) |-> LowerChar(s[i])]

Contains(s, c) == \E i \in 1..Len(s) : s[i] = c

\* str.rfind(c), 1-based; 0 when c does not occur
RFind(s, c) ==
    IF Contains(s, c)
    THEN CHOOSE i \in 1..Len(s) : s[i] = c /\ \A j \in (i+1)..Len(s) : s[j] # c
    ELSE 0

\* filename.rsplit('.', 1)[1]
RSplitLast(s) == SubSeq(s, RFind(s, ".") + 1, Len(s))

allowed_fileCaseSensitive(filename) ==
    Contains(filename, ".") /\ RSplitLast(filename) \in ALLOWED_EXTENSIONS

allowed_file(filename) ==
    Contains(filename, ".") /\ Lower(RSplitLast(filename)) \in ALLOWED_EXTENSIONS

\* unicodedata.normalize("NFKD", s).encode("ascii", "ignore")
AsciiIgnore(s) == SelectSeq(s, LAMBDA c : c # "NA")

\* s.replace(os.sep, " ")
ReplaceSep(s) == [i \in 1..Len(s) |-> IF s[i] = "/" THEN " " ELSE s[i]]

\* length of the longest prefix of s without whitespace
RECURSIVE WordLen(_)
WordLen(s) ==
    IF s = <<>> \/ Head(s) = " " THEN 0 ELSE 1 + WordLen(Tail(s))

\* s.split()
RECURSIVE Split(_)
Split(s) ==
    IF s = <<>> THEN <<>>
    ELSE IF Head(s) = " " THEN Split(Tail(s))
    ELSE LET n == WordLen(s)
         IN  <<SubSeq(s, 1, n)>> \o Split(SubSeq(s, n + 1, Len(s)))

\* sep.join(words)
RECURSIVE Join(_, _)
Join(words, sep) ==
    IF words = <<>> THEN <<>>
    ELSE IF Len(words) = 1 THEN words[1]
    ELSE words[1] \o <<sep>> \o Join(Tail(words), sep)

\* _filename_ascii_strip_re.sub("", s)
AsciiStrip(s) == SelectSeq(s, LAMBDA c : c \in SafeChars)

\* s.strip("._")
RECURSIVE LStrip(_)
LStrip(s) ==
    IF s # <<>> /\ Head(s) \in {".", "_"} THEN LStrip(Tail(s)) ELSE s

RECURSIVE RStrip(_)
RStrip(s) ==
    IF s # <<>> /\ s[Len(s)] \in {".", "_"}
    THEN RStrip(SubSeq(s, 1, Len(s) - 1)) ELSE s

Strip(s) == RStrip(LStrip(s))

\* werkzeug.utils.secure_filename
secure_filename(filename) ==
    Strip(AsciiStrip(Join(Split(ReplaceSep(AsciiIgnore(filename))), "_")))

\* os.path.splitext(p)[0]: the extension starts at the last dot of the last
\* path component, unless only dots precede it in that component
SplitextRoot(p) ==
    LET sepIndex == RFind(p, "/")
        dotIndex == RFind(p, ".")
    IN  IF dotIndex > sepIndex
           /\ \E i \in (sepIndex + 1)..(dotIndex - 1) : p[i] # "."
        THEN SubSeq(p, 1, dotIndex - 1)
        ELSE p

\* f"{base_name}.docx"
DownloadName(base) == Append(base, ".docx")

\* ------------------------------------------------------------ the requests
\* Names the two-worker specification draws from
SampleNames == { <<>>, <<"d", ".", "P", "d", "f">>, <<"d", ".", "d">> }

Sizes == {MAX_FILE_SIZE, MAX_FILE_SIZE + 1}

\* request.method, request.files ('file' present or not), file.filename and
\* the length of the stream as file.tell() reports it
UploadsOver(names) ==
    [method : {"POST"}, present : {TRUE}, filename : names, size : Sizes]

RequestsOver(names) ==
    [method : {"OPTIONS"}, present : {FALSE}, filename : {<<>>}, size : {0}]
    \cup [method : {"OPTIONS"}, present : {TRUE},
          filename : {<<"d", ".", "p", "d", "f">>}, size : {MAX_FILE_SIZE}]
    \cup [method : {"POST"}, present : {FALSE}, filename : {<<>>}, size : {0}]
    \cup UploadsOver(names)

NoRequest == [method |-> "NONE", present |-> FALSE, filename |-> <<>>, size |-> 0]

\* ---------------------------------------------------------- the file system
Suffixes == {".pdf", ".docx"}
Paths == (1..NameCount) \X Suffixes
NoPath == <<0, "">>

NoData == <<"none", 0>>
EmptyData == <<"empty", 0>>
UploadData(r) == <<"pdf", r>>
TruncatedData(r) == <<"cut", r>>
\* what the Document Converter writes for a source it has read
DocxOf(d) == <<"docx", d[2]>>
PartialDocxOf(d) == <<"part", d[2]>>

Absent == [owner |-> 0, data |-> NoData]

VARIABLES
    req,        \* the request each worker handles
    pc,         \* each worker's position in convert_pdf
    fs,         \* the temporary directory: path -> file, or Absent
    pdf_path,   \* pdf_temp.name, the first NamedTemporaryFile
    docx_path,  \* name of the second NamedTemporaryFile
    base_name,  \* os.path.splitext(original_filename)[0]
    cv,         \* the document the Converter has opened
    retval,     \* value of a pending return statement
    exc,        \* message of a pending exception
    response,   \* what convert_pdf returned
    log,        \* lines printed
    created,    \* paths of the files this request created
    removed,    \* <<path, owner>> of every file this request unlinked
    steps,      \* steps of the handler this request has executed
    determined  \* the response fixed when the finally block was entered

vars == <<req, pc, fs, pdf_path, docx_path, base_name, cv, retval, exc,
          response, log, created, removed, steps, determined>>

NoResponse ==
    [status |-> 0, kind |-> "none", success |-> "-", error |-> <<>>, ok |-> "-",
     data |-> NoData, download_name |-> <<>>, mimetype |-> "", headers |-> {}]

\* jsonify({'success': False, 'error': msg}), code
JsonError(code, msg) ==
    [NoResponse EXCEPT !.status = code, !.kind = "json", !.success = "false",
                       !.error = msg, !.mimetype = "application/json"]

\* the preflight answer with its three headers
PreflightResponse ==
    [NoResponse EXCEPT !.status = 200, !.kind = "json", !.ok = "ok",
                       !.mimetype = "application/json",
                       !.headers = { <<"Access-Control-Allow-Origin", "*">>,
                                     <<"Access-Control-Allow-Headers", "Content-Type">>,
                                     <<"Access-Control-Allow-Methods", "POST">> }]

\* send_file(docx_path, as_attachment=True, download_name=..., mimetype=...)
\* plus the CORS header
FileResponse(d, base) ==
    [NoResponse EXCEPT !.status = 200, !.kind = "file", !.data = d,
                       !.download_name = DownloadName(base),
                       !.mimetype = DOCX_MIMETYPE,
                       !.headers = { <<"Access-Control-Allow-Origin", "*">> }]

ErrorResponseNoCause(e) == JsonError(500, <<"Conversion failed">>)

\* the outer except clause: f'Conversion failed: {str(e)}', 500
ErrorResponse(e) == JsonError(500, <<"Conversion failed: ", e>>)

IsPreflightWrongMethod(q) == q.method = "GET"

IsPreflight(q) == q.method = "OPTIONS"

ValidationErrorNoSizeCheck(q) ==
    IF ~q.present THEN "No file uploaded"
    ELSE IF q.filename = <<>> THEN "No file selected"
    ELSE IF ~allowed_file(q.filename) THEN "Only PDF files are allowed"
    ELSE ""

ValidationErrorSizeFirst(q) ==
    IF ~q.present THEN "No file uploaded"
    ELSE IF q.filename = <<>> THEN "No file selected"
    ELSE IF q.size > MAX_FILE_SIZE THEN "File size exceeds 10MB limit"
    ELSE IF ~allowed_file(q.filename) THEN "Only PDF files are allowed"
    ELSE ""

\* the four checks in the order of the code; "" when all pass
ValidationError(q) ==
    IF ~q.present THEN "No file uploaded"
    ELSE IF q.filename = <<>> THEN "No file selected"
    ELSE IF ~allowed_file(q.filename) THEN "Only PDF files are allowed"
    ELSE IF q.size > MAX_FILE_SIZE THEN "File size exceeds 10MB limit"
    ELSE ""

FreeNamesAny(suffix) == 1..NameCount

\* tempfile creates the file with O_EXCL: a name is usable when no file of
\* that name exists
FreeNames(suffix) == { n \in 1..NameCount : fs[<<n, suffix>>] = Absent }

\* os.path.exists(path)
Exists(path) == path \in Paths /\ fs[path] # Absent

Labels ==
    {"none", "start", "alloc_pdf", "save", "alloc_docx", "open", "convert",
     "close", "send", "cleanup_pdf", "cleanup_docx", "finally_end", "except",
     "responded"}

TypeOK ==
    /\ pc \in [Reqs -> Labels]
    /\ \A p \in Paths : fs[p].owner \in Reqs \cup {0}
    /\ \A r \in Reqs : created[r] \subseteq Paths

InitWith(active) ==
    /\ pc = [r \in Reqs |-> IF r \in active THEN "start" ELSE "none"]
    /\ fs = [p \in Paths |-> Absent]
    /\ pdf_path = [r \in Reqs |-> NoPath]
    /\ docx_path = [r \in Reqs |-> NoPath]
    /\ base_name = [r \in Reqs |-> <<>>]
    /\ cv = [r \in Reqs |-> NoData]
    /\ retval = [r \in Reqs |-> NoResponse]
    /\ exc = [r \in Reqs |-> ""]
    /\ response = [r \in Reqs |-> NoResponse]
    /\ log = [r \in Reqs |-> <<>>]
    /\ created = [r \in Reqs |-> {}]
    /\ removed = [r \in Reqs |-> {}]
    /\ steps = [r \in Reqs |-> {}]
    /\ determined = [r \in Reqs |-> NoResponse]

\* two workers, each with a request
Init ==
    /\ req \in [Reqs -> RequestsOver(SampleNames)]
    /\ InitWith(Reqs)

\* one worker with a request, any filename up to MaxNameLen
InitOne ==
    /\ \/ \E q \in RequestsOver({}) :
             req = [r \in Reqs |-> IF r = 1 THEN q ELSE NoRequest]
       \/ \E n \in 0..MaxNameLen : \E name \in [1..n -> Alphabet] :
             \E q \in UploadsOver({name}) :
                req = [r \in Reqs |-> IF r = 1 THEN q ELSE NoRequest]
    /\ InitWith({1})

\* ----------------------------------------------------------------- actions
Goto(r, l) == pc' = [pc EXCEPT ![r] = l]
Did(r, s) == steps' = [steps EXCEPT ![r] = @ \cup {s}]

\* an exception raised before the inner try: straight to the outer except
RaiseOuter(r, msg) ==
    /\ exc' = [exc EXCEPT ![r] = msg]
    /\ Goto(r, "except")

\* an exception raised inside the inner try: the finally block runs first
RaiseInner(r, msg) ==
    /\ exc' = [exc EXCEPT ![r] = msg]
    /\ determined' = [determined EXCEPT ![r] = ErrorResponse(msg)]
    /\ Goto(r, "cleanup_pdf")

\* lines 28-33
Preflight(r) ==
    /\ pc[r] = "start"
    /\ IsPreflight(req[r])
    /\ response' = [response EXCEPT ![r] = PreflightResponse]
    /\ Goto(r, "responded")
    /\ Did(r, "preflight")
    /\ UNCHANGED <<req, fs, pdf_path, docx_path, base_name, cv, retval, exc,
                   log, created, removed, determined>>

\* lines 37-58: the four checks, then the download name's base
Validate(r) ==
    /\ pc[r] = "start"
    /\ ~IsPreflight(req[r])
    /\ Did(r, "validate")
    /\ LET err == ValidationError(req[r])
       IN  IF err # ""
           THEN /\ response' = [response EXCEPT ![r] = JsonError(400, <<err>>)]
                /\ Goto(r, "responded")
                /\ UNCHANGED base_name
           ELSE /\ base_name' = [base_name EXCEPT ![r] =
                                   SplitextRoot(secure_filename(req[r].filename))]
                /\ Goto(r, "alloc_pdf")
                /\ UNCHANGED response
    /\ UNCHANGED <<req, fs, pdf_path, docx_path, cv, retval, exc, log, created,
                   removed, determined>>

\* line 61: tempfile.NamedTemporaryFile(delete=False, suffix='.pdf')
AllocPdf(r) ==
    /\ pc[r] = "alloc_pdf"
    /\ \/ \E n \in FreeNames(".pdf") :
             /\ fs' = [fs EXCEPT ![<<n, ".pdf">>] = [owner |-> r, data |-> EmptyData]]
             /\ pdf_path' = [pdf_path EXCEPT ![r] = <<n, ".pdf">>]
             /\ created' = [created EXCEPT ![r] = @ \cup {<<n, ".pdf">>}]
             /\ Goto(r, "save")
             /\ Did(r, "stage")
             /\ UNCHANGED exc
       \/ /\ RaiseOuter(r, "mkstemp failed")
          /\ UNCHANGED <<fs, pdf_path, created, steps>>
    /\ UNCHANGED <<req, docx_path, base_name, cv, retval, response, log, removed,
                   determined>>

\* lines 62-63: file.save(pdf_temp.name)
SavePdf(r) ==
    /\ pc[r] = "save"
    /\ \/ /\ fs' = [fs EXCEPT ![pdf_path[r]] = [owner |-> r, data |-> UploadData(r)]]
          /\ Goto(r, "alloc_docx")
          /\ UNCHANGED exc
       \/ /\ \E d \in {EmptyData, TruncatedData(r)} :
                fs' = [fs EXCEPT ![pdf_path[r]] = [owner |-> r, data |-> d]]
          /\ RaiseOuter(r, "save failed")
    /\ UNCHANGED <<req, pdf_path, docx_path, base_name, cv, retval, response, log,
                   created, removed, steps, determined>>

\* lines 65-66: tempfile.NamedTemporaryFile(delete=False, suffix='.docx')
AllocDocx(r) ==
    /\ pc[r] = "alloc_docx"
    /\ \/ \E n \in FreeNames(".docx") :
             /\ fs' = [fs EXCEPT ![<<n, ".docx">>] = [owner |-> r, data |-> EmptyData]]
             /\ docx_path' = [docx_path EXCEPT ![r] = <<n, ".docx">>]
             /\ created' = [created EXCEPT ![r] = @ \cup {<<n, ".docx">>}]
             /\ Goto(r, "open")
             /\ UNCHANGED exc
       \/ /\ RaiseOuter(r, "mkstemp failed")
          /\ UNCHANGED <<fs, docx_path, created>>
    /\ UNCHANGED <<req, pdf_path, base_name, cv, retval, response, log, removed,
                   steps, determined>>

\* line 70: cv = Converter(pdf_path)
ConverterOpen(r) ==
    /\ pc[r] = "open"
    /\ Did(r, "convert")
    /\ \/ /\ Exists(pdf_path[r])
          /\ cv' = [cv EXCEPT ![r] = fs[pdf_path[r]].data]
          /\ Goto(r, "convert")
          /\ UNCHANGED <<exc, determined>>
       \/ /\ RaiseInner(r, "open failed")
          /\ UNCHANGED cv
    /\ UNCHANGED <<req, fs, pdf_path, docx_path, base_name, retval, response, log,
                   created, removed>>

\* line 71: cv.convert(docx_path, start=0, end=None)
Convert(r) ==
    /\ pc[r] = "convert"
    /\ \/ /\ fs' = [fs EXCEPT ![docx_path[r]] =
                      [owner |-> IF Exists(docx_path[r]) THEN @.owner ELSE r,
                       data |-> DocxOf(cv[r])]]
          /\ Goto(r, "close")
          /\ UNCHANGED <<exc, determined>>
       \/ /\ \/ UNCHANGED fs
             \/ /\ Exists(docx_path[r])
                /\ fs' = [fs EXCEPT ![docx_path[r]].data = PartialDocxOf(cv[r])]
          /\ RaiseInner(r, "convert failed")
    /\ UNCHANGED <<req, pdf_path, docx_path, base_name, cv, retval, response, log,
                   created, removed, steps>>

\* line 72: cv.close()
Close(r) ==
    /\ pc[r] = "close"
    /\ \/ /\ Goto(r, "send")
          /\ UNCHANGED <<exc, determined>>
       \/ RaiseInner(r, "close failed")
    /\ UNCHANGED <<req, fs, pdf_path, docx_path, base_name, cv, retval, response,
                   log, created, removed, steps>>

\* lines 75-85: send_file opens the result, the CORS header is added, and the
\* return statement is pending while the finally block runs
SendFile(r) ==
    /\ pc[r] = "send"
    /\ \/ /\ Exists(docx_path[r])
          /\ retval' = [retval EXCEPT ![r] =
                          FileResponse(fs[docx_path[r]].data, base_name[r])]
          /\ determined' = [determined EXCEPT ![r] =
                          FileResponse(fs[docx_path[r]].data, base_name[r])]
          /\ Goto(r, "cleanup_pdf")
          /\ UNCHANGED exc
       \/ /\ RaiseInner(r, "send_file failed")
          /\ UNCHANGED retval
    /\ UNCHANGED <<req, fs, pdf_path, docx_path, base_name, cv, response, log,
                   created, removed, steps>>

Unlink(r, path) ==
    /\ fs' = [fs EXCEPT ![path] = Absent]
    /\ removed' = [removed EXCEPT ![r] = @ \cup {<<path, fs[path].owner>>}]

CleanupErrorPropagates(r) ==
    /\ log' = [log EXCEPT ![r] = Append(@, "Cleanup error")]
    /\ exc' = [exc EXCEPT ![r] = "unlink failed"]
    /\ retval' = [retval EXCEPT ![r] = NoResponse]

\* lines 94-95: the cleanup error is printed, nothing else
CleanupError(r) ==
    /\ log' = [log EXCEPT ![r] = Append(@, "Cleanup error")]
    /\ UNCHANGED <<exc, retval>>

\* lines 89-91
CleanupPdf(r) ==
    /\ pc[r] = "cleanup_pdf"
    /\ \/ /\ ~Exists(pdf_path[r])
          /\ Goto(r, "cleanup_docx")
          /\ Did(r, "cleanup")
          /\ UNCHANGED <<fs, removed, log, exc, retval>>
       \/ /\ Exists(pdf_path[r])
          /\ Unlink(r, pdf_path[r])
          /\ Goto(r, "cleanup_docx")
          /\ Did(r, "cleanup")
          /\ UNCHANGED <<log, exc, retval>>
       \/ /\ Exists(pdf_path[r])
          /\ CleanupError(r)
          /\ Goto(r, "finally_end")
          /\ steps' = [steps EXCEPT ![r] = @ \cup {"cleanup", "unlink_failed", "unlink_pdf_failed"}]
          /\ UNCHANGED <<fs, removed>>
    /\ UNCHANGED <<req, pdf_path, docx_path, base_name, cv, response, created,
                   determined>>

\* lines 92-93
CleanupDocx(r) ==
    /\ pc[r] = "cleanup_docx"
    /\ \/ /\ ~Exists(docx_path[r])
          /\ UNCHANGED <<fs, removed, log, exc, retval, steps>>
       \/ /\ Exists(docx_path[r])
          /\ Unlink(r, docx_path[r])
          /\ UNCHANGED <<log, exc, retval, steps>>
       \/ /\ Exists(docx_path[r])
          /\ CleanupError(r)
          /\ Did(r, "unlink_failed")
          /\ UNCHANGED <<fs, removed>>
    /\ Goto(r, "finally_end")
    /\ UNCHANGED <<req, pdf_path, docx_path, base_name, cv, response, created,
                   determined>>

\* line 85 completes: the pending return value leaves the handler
Return(r) ==
    /\ pc[r] = "finally_end"
    /\ exc[r] = ""
    /\ response' = [response EXCEPT ![r] = retval[r]]
    /\ Goto(r, "responded")
    /\ UNCHANGED <<req, fs, pdf_path, docx_path, base_name, cv, retval, exc, log,
                   created, removed, steps, determined>>

\* the pending exception leaves the finally block for the outer except
Reraise(r) ==
    /\ pc[r] = "finally_end"
    /\ exc[r] # ""
    /\ Goto(r, "except")
    /\ UNCHANGED <<req, fs, pdf_path, docx_path, base_name, cv, retval, exc,
                   response, log, created, removed, steps, determined>>

\* lines 97-102
Except(r) ==
    /\ pc[r] = "except"
    /\ log' = [log EXCEPT ![r] = Append(@, "Conversion error")]
    /\ response' = [response EXCEPT ![r] = ErrorResponse(exc[r])]
    /\ Goto(r, "responded")
    /\ UNCHANGED <<req, fs, pdf_path, docx_path, base_name, cv, retval, exc,
                   created, removed, steps, determined>>

Next ==
    \E r \in Reqs :
        \/ Preflight(r)
        \/ Validate(r)
        \/ AllocPdf(r)
        \/ SavePdf(r)
        \/ AllocDocx(r)
        \/ ConverterOpen(r)
        \/ Convert(r)
        \/ Close(r)
        \/ SendFile(r)
        \/ CleanupPdf(r)
        \/ CleanupDocx(r)
        \/ Return(r)
        \/ Reraise(r)
        \/ Except(r)

Spec == Init /\ [][Next]_vars

SpecOne == InitOne /\ [][Next]_vars

\* ------------------------------------------------------------- properties
Responded(r) == pc[r] = "responded"
IsPost(r) == req[r].method = "POST"
Owns(r, p) == p \in Paths /\ fs[p] # Absent /\ fs[p].owner = r

\* the extension, read off the filename directly: the text after the last
\* '.' is "pdf" in any letter case
ExtensionIsPdf(f) ==
    \E i \in 1..Len(f) :
        /\ f[i] = "."
        /\ \A j \in (i + 1)..Len(f) : f[j] # "."
        /\ Len(f) = i + 3
        /\ f[i + 1] \in {"p", "P"}
        /\ f[i + 2] = "d"
        /\ f[i + 3] = "f"

\* number of the first of the four checks a request fails, 0 when none
FirstFailingCheck(q) ==
    IF ~q.present THEN 1
    ELSE IF Len(q.filename) = 0 THEN 2
    ELSE IF ~ExtensionIsPdf(q.filename) THEN 3
    ELSE IF q.size > 10485760 THEN 4
    ELSE 0

CheckError(k) ==
    CASE k = 1 -> "No file uploaded"
      [] k = 2 -> "No file selected"
      [] k = 3 -> "Only PDF files are allowed"
      [] k = 4 -> "File size exceeds 10MB limit"

\* the name without its final extension: everything before the last '.'
RemoveFinalExt(s) ==
    IF \E i \in 1..Len(s) : s[i] = "."
    THEN LET i == CHOOSE k \in 1..Len(s) :
                     s[k] = "." /\ \A j \in (k + 1)..Len(s) : s[j] # "."
         IN  [j \in 1..(i - 1) |-> s[j]]
    ELSE s

ConverterMessages == {"open failed", "convert failed", "close failed"}

\* C1: once a POST request has returned and no deletion failed, none of
\* the temporary files it created still exists
C1_NoTempFilesRemain ==
    \A r \in Reqs :
        (Responded(r) /\ IsPost(r) /\ "unlink_failed" \notin steps[r])
            => \A p \in Paths : ~Owns(r, p)

\* C2: the response to a POST request that fails a check is HTTP 400 with
\* the error of the first failing check, the checks taken in the order
\* present, non-empty name, pdf extension, size <= 10485760; a request that
\* passes all four is not answered 400
C2_FirstFailingCheckDecides ==
    \A r \in Reqs :
        (Responded(r) /\ IsPost(r)) =>
            LET k == FirstFailingCheck(req[r])
            IN  IF k # 0
                THEN response[r] = JsonError(400, <<CheckError(k)>>)
                ELSE response[r].status # 400

\* an oversized upload that is not a PDF got the unsupported-type error
C2_Witness ==
    \E r \in Reqs :
        /\ Responded(r) /\ IsPost(r) /\ req[r].present
        /\ req[r].filename = <<"d", ".", "d">>
        /\ req[r].size = 10485761
        /\ response[r].status = 400
        /\ response[r].error = <<"Only PDF files are allowed">>

\* C3: when the converter raised, the response is HTTP 500 JSON with
\* success false and the converter's message in the error text, and carries
\* no document bytes; a file response occurs only with status 200 after the
\* converter succeeded and carries the complete result
C3_ConverterFailureIs500 ==
    \A r \in Reqs :
        (Responded(r) /\ IsPost(r)) =>
            /\ response[r].kind \in {"json", "file"}
            /\ exc[r] \in ConverterMessages =>
                  /\ response[r].status = 500
                  /\ response[r].kind = "json"
                  /\ response[r].success = "false"
                  /\ \E i \in 1..Len(response[r].error) : response[r].error[i] = exc[r]
                  /\ response[r].data = NoData
            /\ response[r].kind = "json" =>
                  response[r].data = NoData /\ response[r].success = "false"
            /\ response[r].kind = "file" =>
                  /\ response[r].status = 200
                  /\ exc[r] = ""
                  /\ response[r].success = "-" /\ response[r].error = <<>>
                  /\ response[r].data = DocxOf(UploadData(r))

\* the converter failed half-way through writing and the request got a 500
C3_Witness ==
    \E r \in Reqs :
        /\ Responded(r)
        /\ exc[r] = "convert failed"
        /\ response[r].status = 500
        /\ "unlink_failed" \in steps[r]
        /\ fs[docx_path[r]].data = PartialDocxOf(UploadData(r))

\* C4: a POST request that fails one of the four checks never creates a
\* temporary file and never reaches staging or the converter, and its
\* response is the 400
C4_FailFast ==
    \A r \in Reqs :
        (IsPost(r) /\ FirstFailingCheck(req[r]) # 0) =>
            /\ created[r] = {}
            /\ \A p \in Paths : ~Owns(r, p)
            /\ steps[r] \subseteq {"validate"}
            /\ pc[r] \in {"start", "responded"}
            /\ Responded(r) => response[r].status = 400

\* an oversized PDF was rejected while the other request had files staged
C4_Witness ==
    \E r \in Reqs :
        /\ Responded(r) /\ IsPost(r)
        /\ FirstFailingCheck(req[r]) = 4
        /\ response[r].status = 400
        /\ \E p \in Paths : fs[p] # Absent

\* C5: for a request that reached the cleanup, the response returned is the
\* one fixed when the finally block was entered, whether or not a deletion
\* failed, and a failed deletion is logged
C5_CleanupFailureKeepsResponse ==
    \A r \in Reqs :
        (Responded(r) /\ "cleanup" \in steps[r]) =>
            /\ response[r] = determined[r]
            /\ response[r].status \in {200, 500}
            /\ "unlink_failed" \in steps[r] =>
                  \E i \in 1..Len(log[r]) : log[r][i] = "Cleanup error"

\* a deletion failed after a successful conversion and the 200 was returned
C5_Witness ==
    \E r \in Reqs :
        /\ Responded(r)
        /\ "unlink_failed" \in steps[r]
        /\ response[r].status = 200
        /\ response[r].kind = "file"

\* what C6 says besides the distinctness of the paths
C6_NoInterference ==
    \A r \in Reqs :
        /\ \A p \in created[r] : (<<p, r>> \notin removed[r]) => Owns(r, p)
        /\ cv[r] # NoData => cv[r] = UploadData(r)
        /\ response[r].kind = "file" => response[r].data = DocxOf(UploadData(r))
        /\ \A d \in removed[r] : d[2] = r

\* C6 as stated: the paths of two requests are pairwise distinct, each
\* converter reads its own source, each response carries its own result and
\* no cleanup deletes the other request's file
C6_PathsPairwiseDistinct ==
    /\ C6_NoInterference
    /\ \A r, s \in Reqs :
          r # s =>
             /\ pdf_path[r] # NoPath => pdf_path[r] \notin {pdf_path[s], docx_path[s]}
             /\ docx_path[r] # NoPath => docx_path[r] \notin {pdf_path[s], docx_path[s]}

\* C6 amended: two requests have the same path only when one of them had
\* deleted its file before the other created its own; otherwise as stated
C6_Isolation ==
    /\ C6_NoInterference
    /\ \A r, s \in Reqs : \A p \in created[r] \cap created[s] :
          r # s => (<<p, r>> \in removed[r] \/ <<p, s>> \in removed[s])

\* both requests have their uploads staged and their converters reading
C6_Witness ==
    \E r, s \in Reqs :
        /\ r # s
        /\ Owns(r, pdf_path[r]) /\ Owns(s, pdf_path[s])
        /\ Owns(r, docx_path[r]) /\ Owns(s, docx_path[s])
        /\ cv[r] = UploadData(r) /\ cv[s] = UploadData(s)

\* C7: a POST request that created a temporary file has executed the
\* cleanup step by the time its response is returned
C7_CleanupBeforeResponse ==
    \A r \in Reqs :
        (Responded(r) /\ IsPost(r) /\ created[r] # {}) => "cleanup" \in steps[r]

\* C8: a valid upload whose staging, conversion and response all succeed is
\* answered 200 with the result's bytes, the Word content type, the CORS
\* header and the attachment name <base>.docx, <base> being the sanitized
\* filename without its final extension; d.Pdf gives d.docx
C8_SuccessResponse ==
    \A r \in Reqs :
        (/\ Responded(r) /\ IsPost(r) /\ req[r].present
         /\ ExtensionIsPdf(req[r].filename)
         /\ req[r].size <= 10485760
         /\ exc[r] = "") =>
            /\ response[r].status = 200
            /\ response[r].kind = "file"
            /\ response[r].data = DocxOf(UploadData(r))
            /\ response[r].download_name =
                  Append(RemoveFinalExt(secure_filename(req[r].filename)), ".docx")
            /\ \A i \in 1..Len(response[r].download_name) :
                  response[r].download_name[i] \notin {"/", " ", "NA"}
            /\ response[r].mimetype =
                  "application/vnd.openxmlformats-officedocument.wordprocessingml.document"
            /\ <<"Access-Control-Allow-Origin", "*">> \in response[r].headers
            /\ req[r].filename = <<"d", ".", "P", "d", "f">> =>
                  response[r].download_name = <<"d", ".docx">>

\* d.Pdf of exactly the maximum size came back as d.docx
C8_Witness ==
    \E r \in Reqs :
        /\ Responded(r)
        /\ req[r].filename = <<"d", ".", "P", "d", "f">>
        /\ req[r].size = 10485760
        /\ response[r].status = 200
        /\ response[r].download_name = <<"d", ".docx">>

\* what an OPTIONS request may have done at any moment
C9_PreflightState(r) ==
    /\ pc[r] \in {"start", "responded"}
    /\ steps[r] \subseteq {"preflight"}
    /\ created[r] = {} /\ removed[r] = {} /\ log[r] = <<>>
    /\ cv[r] = NoData
    /\ Responded(r) =>
          /\ response[r].status = 200
          /\ response[r].headers = { <<"Access-Control-Allow-Origin", "*">>,
                                     <<"Access-Control-Allow-Headers", "Content-Type">>,
                                     <<"Access-Control-Allow-Methods", "POST">> }

\* C9: an OPTIONS request is answered in its first step with the three CORS
\* headers; it validates nothing, creates and deletes no file, never invokes
\* the converter, and its step leaves the temporary directory as it was
C9_PreflightNoEffect ==
    /\ [](\A r \in Reqs : req[r].method = "OPTIONS" => C9_PreflightState(r))
    /\ [][\A r \in Reqs :
            (req[r].method = "OPTIONS" /\ pc'[r] # pc[r]) =>
                (Responded(r)' /\ fs' = fs /\ log' = log)]_vars

\* a preflight carrying a file was answered while the other request's
\* temporary files were on disk
C9_Witness ==
    \E r \in Reqs :
        /\ req[r].method = "OPTIONS" /\ req[r].present
        /\ Responded(r)
        /\ \E p \in Paths : fs[p] # Absent

\* C10: when deleting the temporary source file failed, the temporary
\* result file is nevertheless gone once the cleanup is over
C10_ResultDeletedIndependently ==
    \A r \in Reqs :
        (pc[r] \in {"finally_end", "except", "responded"}
         /\ "unlink_pdf_failed" \in steps[r])
            => ~Owns(r, docx_path[r])

====
